---- MODULE Spec2Model ----
(***************************************************************************)
(* Model of src/src/components/MapView.jsx: the landmark normalizer, the   *)
(* filter engine (city / type / experience tags), the nearby list, the     *)
(* saved set with its localStorage persistence, and the geolocation watch. *)
(*                                                                         *)
(* Every action is one event handler (or browser callback) followed by the *)
(* re-render React performs after it: the useMemo values (filteredLandmarks*)
(* nearby, savedLandmarkObjects) are recomputed and the effects run.       *)
(*                                                                         *)
(* Modelling conventions                                                   *)
(*  - a JS array is a sequence; a JS value that may be undefined, null or  *)
(*    of several shapes is a record [t |-> shape, v |-> payload];          *)
(*  - a JSON text is a sequence of tokens (Tok), so that JSON.stringify    *)
(*    and JSON.parse are real conversions;                                 *)
(*  - coordinates: every point lies on one meridian (lng = 0) and lat is   *)
(*    counted in miles along it, so the haversine distance between two     *)
(*    points is |lat1 - lat2| miles; NaN is the distance of a point whose  *)
(*    coordinate is undefined;                                             *)
(*  - PhotoCarousel, the child component of the open card, is modelled on  *)
(*    its own in SpecPhoto; in the other specifications no carousel is on  *)
(*    the page and its variables stay as initialised.                      *)
(***************************************************************************)
EXTENDS Integers, Sequences, FiniteSets, TLC

VARIABLES
    cityFiles,               \* the three bundled JSON files (Albany, Troy, Schenectady)
    landmarks,               \* useMemo(..., []): the merged, normalized landmark list
    selected,                \* useState(null): the landmark whose card is open
    selectedCity,            \* useState(""): single-select city filter
    selectedType,            \* useState(""): single-select type filter
    selectedExperienceTags,  \* useState([]): multi-select experience tags
    filteredLandmarks,       \* useMemo: the visible landmarks
    nearby,                  \* useMemo: the nearby list
    savedLandmarks,          \* useState(initializer): the saved ids
    savedLandmarkObjects,    \* useMemo: the saved landmarks
    storage,                 \* localStorage["savedLandmarks"]
    storageOk,               \* FALSE: localStorage access throws
    userLocation,            \* useState(null)
    geoError,                \* useState("")
    showLocationPrompt,      \* useState(true): the location prompt is open
    watchId,                 \* useState(null)
    geoSupported,            \* "geolocation" in navigator
    activeWatches,           \* the browser's active watchPosition handles
    nextWatch,               \* the next handle watchPosition returns
    crashed,                 \* an uncaught error unmounted the component tree
    mounted,                 \* FALSE: the component has been unmounted
    photos,                  \* PhotoCarousel: the photos prop (<<>>: no card is open)
    currentIndex,            \* PhotoCarousel: useState(0)
    loadedPhotos,            \* PhotoCarousel: useState([])
    loading,                 \* PhotoCarousel: useState(true)
    probes,                  \* PhotoCarousel: the checkPhotos calls in flight
    loadable,                \* the photo URLs that the server has
    lastOp,                  \* the handler that ran last, with its argument
    call,                    \* function-level check: the call's arguments
    result                   \* function-level check: the value returned

vars == <<cityFiles, landmarks, selected, selectedCity, selectedType,
          selectedExperienceTags, filteredLandmarks, nearby, savedLandmarks,
          savedLandmarkObjects, storage, storageOk, userLocation, geoError,
          showLocationPrompt, watchId, geoSupported, activeWatches, nextWatch,
          crashed, mounted, photos, currentIndex, loadedPhotos, loading, probes,
          loadable, lastOp, call, result>>

-----------------------------------------------------------------------------
(* Bounds of the model *)

\* user positions delivered by the watch are 0..MaxUserLat (miles along the meridian)
MaxUserLat == 0
\* at most this many watchPosition calls per page load
MaxWatchStarts == 1
\* function-level checks: computeNearby on lists of at most this length
MaxNearbyLen == 3
\* function-level checks: filterLandmarks on lists of at most this length
MaxFilterLen == 2
\* function-level checks: latitudes 0..MaxLat
MaxLat == 3
\* function-level checks: radiusMiles in 0..MaxRadius, limit in 0..MaxLimit
MaxRadius == 2
MaxLimit == 2
\* function-level checks: normalizeCityFile on files of at most this many records
MaxRawLen == 1
\* function-level checks: the merge of three files of at most this many records
MaxMergeLen == 2
\* geolocation runs: positions 0..MaxGeoLat, at most MaxGeoStarts watchPosition calls
MaxGeoLat == 1
MaxGeoStarts == 2
\* photo runs: at most this many checkPhotos calls in flight
MaxProbes == 2

-----------------------------------------------------------------------------
(* JavaScript values *)

Undefined == [t |-> "undefined", v |-> <<>>]
Null == [t |-> "null", v |-> <<>>]
Str(s) == [t |-> "string", v |-> <<s>>]
Arr(a) == [t |-> "array", v |-> a]
Obj == [t |-> "object", v |-> <<>>]

\* the number NaN; every other number of the model is >= 0
NaN == 0 - 1

Range(s) == {s[i] : i \in 1..Len(s)}

Abs(n) == IF n < 0 THEN 0 - n ELSE n

Min(a, b) == IF a <= b THEN a ELSE b

\* Array.prototype.includes
RECURSIVE includes(_, _)
includes(arr, x) ==
    IF arr = <<>> THEN FALSE
    ELSE IF Head(arr) = x THEN TRUE
    ELSE includes(Tail(arr), x)

\* Array.prototype.filter with the predicate "element differs from x"
RECURSIVE without(_, _)
without(arr, x) ==
    IF arr = <<>> THEN <<>>
    ELSE IF Head(arr) # x THEN <<Head(arr)>> \o without(Tail(arr), x)
    ELSE without(Tail(arr), x)

\* a ?? b
Nullish(a, b) == IF a.t \in {"undefined", "null"} THEN b ELSE a

\* String.prototype.toLowerCase on the city names of the model
toLowerCase(s) ==
    CASE s = "Albany" -> "albany"
      [] s = "Troy" -> "troy"
      [] s = "Schenectady" -> "schenectady"
      [] OTHER -> s

-----------------------------------------------------------------------------
(* Data normalizer *)

\* mutant of normalizeCityFile: the city prefix of the id keeps its case and a
\* non-array experiencetag is passed through
normalizeCityFileRaw(cityFile) ==
    [i \in 1..Len(cityFile.landmarks) |->
        LET lm == cityFile.landmarks[i]
            city == cityFile.city
            typeTag == Nullish(lm.typetag, Nullish(lm.type, Str("")))
        IN  [id |-> <<city, "-", lm.id>>,
             city |-> city,
             lat |-> lm.latitude,
             lng |-> lm.longitude,
             typetag |-> typeTag.v[1],
             experiencetag |-> lm.experiencetag.v]]

\* mutant of normalizeCityFile: the id is the raw id alone
normalizeCityFileNoCity(cityFile) ==
    [i \in 1..Len(cityFile.landmarks) |->
        LET lm == cityFile.landmarks[i]
            city == cityFile.city
            typeTag == Nullish(lm.typetag, Nullish(lm.type, Str("")))
            experienceTags ==
                IF lm.experiencetag.t = "array" THEN lm.experiencetag.v ELSE <<>>
        IN  [id |-> <<"", "", lm.id>>,
             city |-> city,
             lat |-> lm.latitude,
             lng |-> lm.longitude,
             typetag |-> typeTag.v[1],
             experiencetag |-> experienceTags]]

\* mutant of normalizeCityFile: lm.type ?? lm.typetag ?? ""
normalizeCityFileTypeFirst(cityFile) ==
    [i \in 1..Len(cityFile.landmarks) |->
        LET lm == cityFile.landmarks[i]
            city == cityFile.city
            typeTag == Nullish(lm.type, Nullish(lm.typetag, Str("")))
            experienceTags ==
                IF lm.experiencetag.t = "array" THEN lm.experiencetag.v ELSE <<>>
        IN  [id |-> <<toLowerCase(city), "-", lm.id>>,
             city |-> city,
             lat |-> lm.latitude,
             lng |-> lm.longitude,
             typetag |-> typeTag.v[1],
             experiencetag |-> experienceTags]]

\* normalizeCityFile(cityFile): one landmark per raw record, in file order.
\* The id is the template literal `${city.toLowerCase()}-${lm.id}`, kept as
\* its three pieces.
normalizeCityFile(cityFile) ==
    [i \in 1..Len(cityFile.landmarks) |->
        LET lm == cityFile.landmarks[i]
            city == cityFile.city
            typeTag == Nullish(lm.typetag, Nullish(lm.type, Str("")))
            experienceTags ==
                IF lm.experiencetag.t = "array" THEN lm.experiencetag.v ELSE <<>>
        IN  [id |-> <<toLowerCase(city), "-", lm.id>>,
             city |-> city,
             lat |-> lm.latitude,
             lng |-> lm.longitude,
             typetag |-> typeTag.v[1],
             experiencetag |-> experienceTags]]

\* const landmarks = useMemo(() => [...Albany, ...Troy, ...Schenectady], [])
mergeLandmarks(files) ==
    normalizeCityFile(files[1]) \o normalizeCityFile(files[2])
        \o normalizeCityFile(files[3])

-----------------------------------------------------------------------------
(* Filter engine *)

\* mutant of everyTagIncluded: some() in place of every()
RECURSIVE someTagIncluded(_, _)
someTagIncluded(tags, landmark) ==
    IF tags = <<>> THEN FALSE
    ELSE IF includes(landmark.experiencetag, Head(tags)) THEN TRUE
    ELSE someTagIncluded(Tail(tags), landmark)

\* selectedExperienceTags.every((tag) => landmark.experiencetag.includes(tag))
RECURSIVE everyTagIncluded(_, _)
everyTagIncluded(tags, landmark) ==
    IF tags = <<>> THEN TRUE
    ELSE IF ~includes(landmark.experiencetag, Head(tags)) THEN FALSE
    ELSE everyTagIncluded(Tail(tags), landmark)

\* mutant of matchesExperienceTags: only the tag selected last is required
matchesLastTagOnly(landmark, tags) ==
    IF Len(tags) = 0 THEN TRUE
    ELSE includes(landmark.experiencetag, tags[Len(tags)])

matchesExperienceTags(landmark, tags) ==
    IF Len(tags) = 0 THEN TRUE
    ELSE everyTagIncluded(tags, landmark)

\* mutant of passesFilter: the type filter is not applied
passesFilterIgnoringType(l, city, type, tags) ==
    /\ (IF city # "" THEN l.city = city ELSE TRUE)
    /\ matchesExperienceTags(l, tags)

\* the callback of landmarks.filter in the filteredLandmarks memo
passesFilter(l, city, type, tags) ==
    LET cityOk == IF city # "" THEN l.city = city ELSE TRUE
        typeOk == IF type # "" THEN l.typetag = type ELSE TRUE
        expOk == matchesExperienceTags(l, tags)
    IN  cityOk /\ typeOk /\ expOk

\* mutant of filterLandmarks: the passing elements come out in reverse order
RECURSIVE filterLandmarksReversed(_, _, _, _)
filterLandmarksReversed(list, city, type, tags) ==
    IF list = <<>> THEN <<>>
    ELSE IF passesFilter(Head(list), city, type, tags)
         THEN filterLandmarksReversed(Tail(list), city, type, tags) \o <<Head(list)>>
         ELSE filterLandmarksReversed(Tail(list), city, type, tags)

\* Array.prototype.filter: keeps the passing elements in their order
RECURSIVE filterLandmarks(_, _, _, _)
filterLandmarks(list, city, type, tags) ==
    IF list = <<>> THEN <<>>
    ELSE IF passesFilter(Head(list), city, type, tags)
         THEN <<Head(list)>> \o filterLandmarks(Tail(list), city, type, tags)
         ELSE filterLandmarks(Tail(list), city, type, tags)

-----------------------------------------------------------------------------
(* Nearby *)

NEARBY_RADIUS_MI == 3
NEARBY_LIMIT == 10

\* Great-circle distance in miles. All points of the model lie on one
\* meridian and lat is counted in miles along it, where the haversine
\* formula gives |lat1 - lat2|; an undefined coordinate gives NaN.
haversineMiles(lat1, lon1, lat2, lon2) ==
    IF NaN \in {lat1, lon1, lat2, lon2} THEN NaN
    ELSE Abs(lat2 - lat1)

\* .map((l) => ({...l, distanceMi: haversineMiles(...)}))
withDistance(list, loc) ==
    [i \in 1..Len(list) |->
        [lm |-> list[i],
         distanceMi |-> haversineMiles(loc.lat, loc.lng, list[i].lat, list[i].lng)]]

\* mutant of withinRadius: < in place of <=
withinRadiusExclusive(l, radius) == l.distanceMi # NaN /\ l.distanceMi < radius

\* l.distanceMi <= radius, as JavaScript compares: false when it is NaN
withinRadius(l, radius) == l.distanceMi # NaN /\ l.distanceMi <= radius

RECURSIVE keepWithinRadius(_, _)
keepWithinRadius(list, radius) ==
    IF list = <<>> THEN <<>>
    ELSE IF withinRadius(Head(list), radius)
         THEN <<Head(list)>> \o keepWithinRadius(Tail(list), radius)
         ELSE keepWithinRadius(Tail(list), radius)

\* mutant of compareDistance: the operands swapped
compareDistanceDescending(a, b) == b.distanceMi - a.distanceMi

\* the comparator (a, b) => a.distanceMi - b.distanceMi
compareDistance(a, b) == a.distanceMi - b.distanceMi

\* insertion of x into a sorted list, after the elements that do not compare
\* greater (Array.prototype.sort is stable)
RECURSIVE insertSorted(_, _)
insertSorted(sorted, x) ==
    IF sorted = <<>> THEN <<x>>
    ELSE IF compareDistance(Head(sorted), x) <= 0
         THEN <<Head(sorted)>> \o insertSorted(Tail(sorted), x)
         ELSE <<x>> \o sorted

RECURSIVE sortByDistance(_)
sortByDistance(list) ==
    IF list = <<>> THEN <<>>
    ELSE insertSorted(sortByDistance(SubSeq(list, 1, Len(list) - 1)), list[Len(list)])

\* Array.prototype.slice(0, limit)
slice(list, limit) == SubSeq(list, 1, Min(limit, Len(list)))

\* mutant of computeNearby: with no user location, distances are taken from
\* the origin
computeNearbyFromOrigin(list, loc, radiusMiles, limit) ==
    LET from == IF loc.t = "null" THEN [lat |-> 0, lng |-> 0] ELSE loc.v
    IN  slice(sortByDistance(keepWithinRadius(withDistance(list, from), radiusMiles)),
              limit)

\* the body of the nearby memo, with its two constants as parameters
computeNearby(list, loc, radiusMiles, limit) ==
    IF loc.t = "null" THEN <<>>
    ELSE slice(sortByDistance(keepWithinRadius(withDistance(list, loc.v), radiusMiles)),
               limit)

-----------------------------------------------------------------------------
(* Saved set and its persistence *)

\* mutant of toggleSavedUpdater: the id is appended even when present
toggleSavedAlwaysAppends(prev, landmarkId) == prev \o <<landmarkId>>

\* the updater of setSavedLandmarks in toggleSaved
toggleSavedUpdater(prev, landmarkId) ==
    IF includes(prev, landmarkId)
    THEN without(prev, landmarkId)
    ELSE prev \o <<landmarkId>>

\* JSON texts are token sequences
Tok(k, s) == [k |-> k, s |-> s]
LBracket == Tok("[", <<>>)
RBracket == Tok("]", <<>>)
Comma == Tok(",", <<>>)
LBrace == Tok("{", <<>>)
RBrace == Tok("}", <<>>)
NullTok == Tok("null", <<>>)
StrTok(s) == Tok("string", s)

\* "a","b",...: the elements of an array, comma separated
RECURSIVE stringifyElements(_)
stringifyElements(a) ==
    IF a = <<>> THEN <<>>
    ELSE IF Len(a) = 1 THEN <<StrTok(a[1])>>
    ELSE <<StrTok(a[1]), Comma>> \o stringifyElements(Tail(a))

\* JSON.stringify
JSONstringify(val) ==
    CASE val.t = "array" -> <<LBracket>> \o stringifyElements(val.v) \o <<RBracket>>
      [] val.t = "null" -> <<NullTok>>
      [] OTHER -> <<LBrace, RBrace>>

ParseError == [ok |-> FALSE, val |-> Undefined]

\* the elements of an array and its closing bracket; `first` is TRUE right
\* after the opening bracket
RECURSIVE parseElements(_, _, _)
parseElements(toks, acc, first) ==
    IF toks = <<>> THEN ParseError
    ELSE IF first /\ toks = <<RBracket>> THEN [ok |-> TRUE, val |-> Arr(acc)]
    ELSE IF Head(toks).k # "string" THEN ParseError
    ELSE LET rest == Tail(toks)
             acc2 == acc \o <<Head(toks).s>>
         IN  IF rest = <<RBracket>> THEN [ok |-> TRUE, val |-> Arr(acc2)]
             ELSE IF rest # <<>> /\ Head(rest) = Comma
                  THEN parseElements(Tail(rest), acc2, FALSE)
                  ELSE ParseError

\* JSON.parse: ok = FALSE is a SyntaxError
JSONparse(toks) ==
    IF toks = <<NullTok>> THEN [ok |-> TRUE, val |-> Null]
    ELSE IF toks = <<LBrace, RBrace>> THEN [ok |-> TRUE, val |-> Obj]
    ELSE IF toks # <<>> /\ Head(toks) = LBracket
         THEN parseElements(Tail(toks), <<>>, TRUE)
         ELSE ParseError

\* the value of a localStorage item that holds `toks`
Text(toks) == [t |-> "string", v |-> toks]

\* the initializer of useState for savedLandmarks
loadSavedLandmarks(item, readable) ==
    IF ~readable THEN Arr(<<>>)                       \* getItem throws: catch
    ELSE IF item.t = "null" \/ item.v = <<>> THEN Arr(<<>>)   \* saved is falsy
    ELSE LET parsed == JSONparse(item.v)
         IN  IF parsed.ok THEN parsed.val ELSE Arr(<<>>)      \* SyntaxError: catch

\* landmarks.filter((l) => savedLandmarks.includes(l.id))
RECURSIVE filterSaved(_, _)
filterSaved(list, saved) ==
    IF list = <<>> THEN <<>>
    ELSE IF includes(saved, Head(list).id)
         THEN <<Head(list)>> \o filterSaved(Tail(list), saved)
         ELSE filterSaved(Tail(list), saved)

\* The render throws a TypeError: savedLandmarks.includes(l.id) in the
\* savedLandmarkObjects memo when savedLandmarks has no includes method and
\* there is a landmark to test, or savedLandmarks.length when it is null.
renderThrows(saved, list) ==
    \/ saved.t = "null"
    \/ saved.t # "array" /\ list # <<>>

\* The effect that persists savedLandmarks throws when localStorage does.
persistThrows(writable) == ~writable

\* localStorage.setItem("savedLandmarks", JSON.stringify(savedLandmarks))
persist(saved) == Text(JSONstringify(saved))

-----------------------------------------------------------------------------
(* The bundled data and the browser's state the model starts from *)

RawLandmark(id, typetag, type, experiencetag, latitude) ==
    [id |-> id, typetag |-> typetag, type |-> type,
     experiencetag |-> experiencetag, latitude |-> latitude, longitude |-> 0]

CityFile(city, list) == [city |-> city, landmarks |-> list]

\* current schema
RawA1 == RawLandmark("1", Str("Park"), Undefined, Arr(<<"Free", "Outdoors">>), 0)
\* legacy `type` field
RawA2 == RawLandmark("2", Undefined, Str("Historic"), Arr(<<"Outdoors">>), 3)
\* both fields, experiencetag not an array
RawT1 == RawLandmark("1", Str("Park"), Str("Historic"), Str("Free"), 4)

CityFileSets ==
    {<<CityFile("Albany", a), CityFile("Troy", t), CityFile("Schenectady", <<>>)>> :
        a \in {<<>>, <<RawA1, RawA2>>}, t \in {<<>>, <<RawT1>>}}

NoFiles == <<CityFile("Albany", <<>>), CityFile("Troy", <<>>), CityFile("Schenectady", <<>>)>>

\* what localStorage may hold under "savedLandmarks" when the page loads
StorageContents ==
    {Null,                                                     \* key absent
     Text(<<>>),                                               \* ""
     Text(<<LBracket, StrTok(<<"albany", "-", "1">>)>>),       \* truncated text
     Text(JSONstringify(Arr(<<>>))),
     Text(JSONstringify(Arr(<<<<"albany", "-", "1">>, <<"albany", "-", "1">>>>))),
     Text(<<NullTok>>),                                        \* null
     Text(<<LBrace, RBrace>>)}                                 \* {}

\* no card is open: there is no PhotoCarousel and no photo is requested
NoCarousel ==
    /\ photos = <<>>
    /\ currentIndex = 0
    /\ loadedPhotos = <<>>
    /\ loading = TRUE
    /\ probes = <<>>
    /\ loadable = {}

NoOp == [op |-> "mount", arg |-> <<>>]
NoCall == [fn |-> "none"]
NoResult == [done |-> FALSE]

Loc(lat, lng) == [t |-> "object", v |-> [lat |-> lat, lng |-> lng]]
Sel(lm) == [t |-> "object", v |-> lm]

\* the three useMemo values of a render
memoFiltered(city, type, tags) == filterLandmarks(landmarks, city, type, tags)

\* mutant of memoNearby: computed from the full landmark set
memoNearbyAllLandmarks(filtered, loc) ==
    computeNearby(landmarks, loc, NEARBY_RADIUS_MI, NEARBY_LIMIT)

memoNearby(filtered, loc) == computeNearby(filtered, loc, NEARBY_RADIUS_MI, NEARBY_LIMIT)

memoSaved(list, saved) == IF saved.t = "array" THEN filterSaved(list, saved.v) ELSE <<>>

\* The state after the component has mounted: the state initializers, the
\* first render and the effects after it. An error thrown by the render or
\* by an effect is caught by no error boundary: React unmounts the tree.
\* The filteredLandmarks memo precedes the uses of savedLandmarks in the
\* render, so it is computed even by a render that throws.
Mounted(files, item, readable, geo) ==
    LET list == mergeLandmarks(files)
        saved == loadSavedLandmarks(item, readable)
        threw == renderThrows(saved, list)
    IN  [cityFiles |-> files,
         landmarks |-> list,
         filteredLandmarks |-> filterLandmarks(list, "", "", <<>>),
         savedLandmarks |-> saved,
         savedLandmarkObjects |-> memoSaved(list, saved),
         storage |-> IF threw \/ persistThrows(readable) THEN item ELSE persist(saved),
         storageOk |-> readable,
         geoSupported |-> geo,
         crashed |-> (threw \/ persistThrows(readable))]

\* the page loads in a browser whose localStorage can (or cannot) be accessed
InitWith(readable) ==
    /\ \E geo \in BOOLEAN, files \in CityFileSets, item \in StorageContents :
          LET m == Mounted(files, item, readable, geo)
          IN  /\ cityFiles = m.cityFiles
              /\ landmarks = m.landmarks
              /\ filteredLandmarks = m.filteredLandmarks
              /\ savedLandmarks = m.savedLandmarks
              /\ savedLandmarkObjects = m.savedLandmarkObjects
              /\ storage = m.storage
              /\ storageOk = m.storageOk
              /\ geoSupported = m.geoSupported
              /\ crashed = m.crashed
    /\ selected = Null
    /\ selectedCity = ""
    /\ selectedType = ""
    /\ selectedExperienceTags = <<>>
    /\ nearby = <<>>
    /\ userLocation = Null
    /\ geoError = ""
    /\ showLocationPrompt = TRUE
    /\ mounted = TRUE
    /\ NoCarousel
    /\ watchId = Null
    /\ activeWatches = {}
    /\ nextWatch = 1
    /\ lastOp = NoOp
    /\ call = NoCall
    /\ result = NoResult

Init == InitWith(TRUE) \/ InitWith(FALSE)

-----------------------------------------------------------------------------
(* Event handlers. Each is followed by the re-render: the memos whose       *)
(* dependencies changed are recomputed.                                     *)

Op(name, arg) == [op |-> name, arg |-> arg]

carouselVars == <<photos, currentIndex, loadedPhotos, loading, probes, loadable>>
staticVars == <<cityFiles, landmarks, storageOk, geoSupported, call, result,
                carouselVars>>
dataVars == <<staticVars, crashed, mounted>>
geoVars == <<userLocation, geoError, showLocationPrompt, watchId, activeWatches,
             nextWatch>>

\* the component is on the page and its last render succeeded
rendered == mounted /\ ~crashed
savedVars == <<savedLandmarks, savedLandmarkObjects, storage>>
filterVars == <<selectedCity, selectedType, selectedExperienceTags>>

\* the options the filter drawer offers
cityOptions == {landmarks[i].city : i \in 1..Len(landmarks)}
typeOptions == {landmarks[i].typetag : i \in 1..Len(landmarks)} \ {""}
experienceOptions == UNION {Range(landmarks[i].experiencetag) : i \in 1..Len(landmarks)}

\* the landmarks a click can open: the markers, the nearby rows, the saved rows
clickable ==
    Range(filteredLandmarks) \cup {nearby[i].lm : i \in 1..Len(nearby)}
        \cup Range(savedLandmarkObjects)

\* the ids that have a star button: the nearby rows, the saved rows, the open card
starred ==
    {nearby[i].lm.id : i \in 1..Len(nearby)}
        \cup {savedLandmarkObjects[i].id : i \in 1..Len(savedLandmarkObjects)}
        \cup (IF selected.t = "null" THEN {} ELSE {selected.v.id})

\* filteredLandmarks and nearby after a change of the filter selection
refilter(city, type, tags) ==
    LET filtered == memoFiltered(city, type, tags)
    IN  /\ filteredLandmarks' = filtered
        /\ nearby' = memoNearby(filtered, userLocation)

\* click: () => setSelected(lm)
selectLandmark(lm) ==
    /\ rendered
    /\ selected' = Sel(lm)
    /\ lastOp' = Op("select", lm.id)
    /\ UNCHANGED <<dataVars, geoVars, savedVars, filterVars, filteredLandmarks, nearby>>

\* onClick={() => setSelected(null)} of the open card
closeSheet ==
    /\ rendered
    /\ selected.t # "null"
    /\ selected' = Null
    /\ lastOp' = Op("close", <<>>)
    /\ UNCHANGED <<dataVars, geoVars, savedVars, filterVars, filteredLandmarks, nearby>>

\* setSavedLandmarks(updater), the re-render and the persisting effect. On a
\* savedLandmarks that is no array, prev.includes is not a function.
toggleSaved(landmarkId) ==
    /\ rendered
    /\ IF savedLandmarks.t = "array"
       THEN LET next == Arr(toggleSavedUpdater(savedLandmarks.v, landmarkId))
            IN  /\ savedLandmarks' = next
                /\ savedLandmarkObjects' = memoSaved(landmarks, next)
                /\ storage' = persist(next)
                /\ crashed' = FALSE
       ELSE /\ crashed' = TRUE
            /\ UNCHANGED savedVars
    /\ lastOp' = Op("toggleSaved", landmarkId)
    /\ UNCHANGED <<staticVars, mounted, geoVars, filterVars, selected, filteredLandmarks,
                   nearby>>

\* mutant of toggleSingle: the active value is not cleared
toggleSingleNeverClears(prev, value) == value

\* the updater (prev) => (prev === value ? "" : value) of toggleCity and toggleType
toggleSingle(prev, value) == IF prev = value THEN "" ELSE value

toggleCity(city) ==
    /\ rendered
    /\ selectedCity' = toggleSingle(selectedCity, city)
    /\ selected' = Null
    /\ refilter(selectedCity', selectedType, selectedExperienceTags)
    /\ lastOp' = Op("toggleCity", city)
    /\ UNCHANGED <<dataVars, geoVars, savedVars, selectedType, selectedExperienceTags>>

toggleType(type) ==
    /\ rendered
    /\ selectedType' = toggleSingle(selectedType, type)
    /\ selected' = Null
    /\ refilter(selectedCity, selectedType', selectedExperienceTags)
    /\ lastOp' = Op("toggleType", type)
    /\ UNCHANGED <<dataVars, geoVars, savedVars, selectedCity, selectedExperienceTags>>

\* the updater of setSelectedExperienceTags
toggleTagUpdater(prev, tag) ==
    IF includes(prev, tag) THEN without(prev, tag) ELSE prev \o <<tag>>

\* mutant of toggleExperienceTag: the open card is kept whatever the tags
toggleExperienceTagKeepsSelected(tag) ==
    /\ rendered
    /\ selectedExperienceTags' = toggleTagUpdater(selectedExperienceTags, tag)
    /\ selected' = selected
    /\ refilter(selectedCity, selectedType, selectedExperienceTags')
    /\ lastOp' = Op("toggleExperienceTag", tag)
    /\ UNCHANGED <<dataVars, geoVars, savedVars, selectedCity, selectedType>>

toggleExperienceTag(tag) ==
    /\ rendered
    /\ selectedExperienceTags' = toggleTagUpdater(selectedExperienceTags, tag)
    /\ selected' =
         IF selected.t = "null" THEN Null
         ELSE LET nextTags == IF includes(selectedExperienceTags, tag)
                              THEN without(selectedExperienceTags, tag)
                              ELSE selectedExperienceTags \o <<tag>>
                  stillVisible ==
                      /\ (IF selectedCity # "" THEN selected.v.city = selectedCity ELSE TRUE)
                      /\ (IF selectedType # "" THEN selected.v.typetag = selectedType ELSE TRUE)
                      /\ matchesExperienceTags(selected.v, nextTags)
              IN  IF stillVisible THEN selected ELSE Null
    /\ refilter(selectedCity, selectedType, selectedExperienceTags')
    /\ lastOp' = Op("toggleExperienceTag", tag)
    /\ UNCHANGED <<dataVars, geoVars, savedVars, selectedCity, selectedType>>

activeCount ==
    (IF selectedCity # "" THEN 1 ELSE 0) + (IF selectedType # "" THEN 1 ELSE 0)
        + Len(selectedExperienceTags)

clearAllFilters ==
    /\ rendered
    /\ activeCount > 0
    /\ selectedCity' = ""
    /\ selectedType' = ""
    /\ selectedExperienceTags' = <<>>
    /\ selected' = Null
    /\ refilter("", "", <<>>)
    /\ lastOp' = Op("clearAllFilters", <<>>)
    /\ UNCHANGED <<dataVars, geoVars, savedVars>>

-----------------------------------------------------------------------------
(* Geolocation *)

GeoUnsupported == "Geolocation isn't supported in this browser."
GeoFailed == "Couldn't get your location."

\* {showLocationPrompt && !userLocation && (...)}: the prompt is on screen
promptShown == showLocationPrompt /\ userLocation.t = "null"

\* {geoError && <div className="location-error">{geoError}</div>}, an element
\* of the prompt and rendered nowhere else
geoErrorShown == rendered /\ promptShown /\ geoError # ""

\* mutant of clearWatch: the handle stays active
clearWatchKeeps(watches, id) == watches

\* navigator.geolocation.clearWatch(id), guarded by watchId != null
clearWatch(watches, id) ==
    IF id.t = "null" THEN watches ELSE watches \ {id.v[1]}

\* The "Use my location" button of the location prompt:
\* startLocationTracking(); setShowLocationPrompt(false). The re-render runs
\* the cleanup of the [watchId] effect on the handle already released.
startLocationTracking ==
    /\ rendered
    /\ promptShown
    /\ IF ~geoSupported
       THEN /\ geoError' = GeoUnsupported
            /\ UNCHANGED <<watchId, activeWatches, nextWatch>>
       ELSE /\ geoError' = ""
            /\ activeWatches' = clearWatch(activeWatches, watchId) \cup {nextWatch}
            /\ watchId' = [t |-> "number", v |-> <<nextWatch>>]
            /\ nextWatch' = nextWatch + 1
    /\ showLocationPrompt' = FALSE
    /\ lastOp' = Op("startLocationTracking", <<>>)
    /\ UNCHANGED <<dataVars, savedVars, filterVars, selected, filteredLandmarks,
                   nearby, userLocation>>

\* the "Not now" button of the location prompt
dismissLocationPrompt ==
    /\ rendered
    /\ promptShown
    /\ showLocationPrompt' = FALSE
    /\ lastOp' = Op("dismissLocationPrompt", <<>>)
    /\ UNCHANGED <<dataVars, savedVars, filterVars, selected, filteredLandmarks,
                   nearby, userLocation, geoError, watchId, activeWatches, nextWatch>>

\* onRequestLocation of the locate button and the "Enable location" button of
\* the nearby view, both acting while userLocation is null
requestLocation ==
    /\ rendered
    /\ userLocation.t = "null"
    /\ showLocationPrompt' = TRUE
    /\ lastOp' = Op("requestLocation", <<>>)
    /\ UNCHANGED <<dataVars, savedVars, filterVars, selected, filteredLandmarks,
                   nearby, userLocation, geoError, watchId, activeWatches, nextWatch>>

\* mutant of positionCallback: a position is taken only while there is none
positionCallbackFirstWins(lat) ==
    /\ rendered
    /\ activeWatches # {}
    /\ userLocation' = IF userLocation.t = "null" THEN Loc(lat, 0) ELSE userLocation
    /\ nearby' = memoNearby(filteredLandmarks, userLocation')
    /\ showLocationPrompt' = FALSE
    /\ lastOp' = Op("position", <<lat>>)
    /\ UNCHANGED <<dataVars, savedVars, filterVars, selected, filteredLandmarks,
                   geoError, watchId, activeWatches, nextWatch>>

\* the success callback of watchPosition, the re-render (nearby memo) and the
\* [userLocation] effect, which closes the prompt
positionCallback(lat) ==
    /\ rendered
    /\ activeWatches # {}
    /\ userLocation' = Loc(lat, 0)
    /\ nearby' = memoNearby(filteredLandmarks, userLocation')
    /\ showLocationPrompt' = FALSE
    /\ lastOp' = Op("position", <<lat>>)
    /\ UNCHANGED <<dataVars, savedVars, filterVars, selected, filteredLandmarks,
                   geoError, watchId, activeWatches, nextWatch>>

\* the error callback of watchPosition
errorCallback ==
    /\ rendered
    /\ activeWatches # {}
    /\ geoError' = GeoFailed
    /\ lastOp' = Op("positionError", <<>>)
    /\ UNCHANGED <<dataVars, savedVars, filterVars, selected, filteredLandmarks,
                   nearby, userLocation, showLocationPrompt, watchId, activeWatches,
                   nextWatch>>

\* The component is unmounted: the cleanup of the [watchId] effect releases
\* the handle of the last render. No handler runs afterwards and a state
\* setter called by a late callback does nothing, so the state stays as the
\* last render left it.
unmount ==
    /\ rendered
    /\ activeWatches' = clearWatch(activeWatches, watchId)
    /\ mounted' = FALSE
    /\ lastOp' = Op("unmount", <<>>)
    /\ UNCHANGED <<staticVars, crashed, savedVars, filterVars, selected,
                   filteredLandmarks, nearby, userLocation, geoError,
                   showLocationPrompt, watchId, nextWatch>>

\* The user reloads the page: every useState starts over, localStorage stays.
reload ==
    /\ LET m == Mounted(cityFiles, storage, storageOk, geoSupported)
       IN  /\ filteredLandmarks' = m.filteredLandmarks
           /\ savedLandmarks' = m.savedLandmarks
           /\ savedLandmarkObjects' = m.savedLandmarkObjects
           /\ storage' = m.storage
           /\ crashed' = m.crashed
    /\ selected' = Null
    /\ selectedCity' = ""
    /\ selectedType' = ""
    /\ selectedExperienceTags' = <<>>
    /\ nearby' = <<>>
    /\ userLocation' = Null
    /\ geoError' = ""
    /\ showLocationPrompt' = TRUE
    /\ mounted' = TRUE
    /\ watchId' = Null
    /\ activeWatches' = {}
    /\ nextWatch' = 1
    /\ lastOp' = Op("reload", <<>>)
    /\ UNCHANGED staticVars

Next ==
    \/ \E lm \in clickable : selectLandmark(lm)
    \/ closeSheet
    \/ \E id \in starred : toggleSaved(id)
    \/ \E city \in cityOptions : toggleCity(city)
    \/ \E type \in typeOptions : toggleType(type)
    \/ \E tag \in experienceOptions : toggleExperienceTag(tag)
    \/ clearAllFilters
    \/ nextWatch <= MaxWatchStarts /\ startLocationTracking
    \/ dismissLocationPrompt
    \/ requestLocation
    \/ \E lat \in 0..MaxUserLat : positionCallback(lat)
    \/ errorCallback
    \/ unmount
    \/ reload

Spec == Init /\ [][Next]_vars

-----------------------------------------------------------------------------
(* Geolocation sessions: the page is loaded with all three city files and  *)
(* an empty localStorage; tracking is started and restarted, the watch     *)
(* delivers positions and errors, the city filter changes what the nearby  *)
(* memo is computed from, and the component is unmounted.                  *)

GeoFiles ==
    <<CityFile("Albany", <<RawA1, RawA2>>), CityFile("Troy", <<RawT1>>),
      CityFile("Schenectady", <<>>)>>

GeoInit ==
    /\ \E geo \in BOOLEAN :
          LET m == Mounted(GeoFiles, Null, TRUE, geo)
          IN  /\ cityFiles = m.cityFiles
              /\ landmarks = m.landmarks
              /\ filteredLandmarks = m.filteredLandmarks
              /\ savedLandmarks = m.savedLandmarks
              /\ savedLandmarkObjects = m.savedLandmarkObjects
              /\ storage = m.storage
              /\ storageOk = m.storageOk
              /\ geoSupported = m.geoSupported
              /\ crashed = m.crashed
    /\ selected = Null
    /\ selectedCity = ""
    /\ selectedType = ""
    /\ selectedExperienceTags = <<>>
    /\ nearby = <<>>
    /\ userLocation = Null
    /\ geoError = ""
    /\ showLocationPrompt = TRUE
    /\ mounted = TRUE
    /\ NoCarousel
    /\ watchId = Null
    /\ activeWatches = {}
    /\ nextWatch = 1
    /\ lastOp = NoOp
    /\ call = NoCall
    /\ result = NoResult

GeoNext ==
    \/ nextWatch <= MaxGeoStarts /\ startLocationTracking
    \/ dismissLocationPrompt
    \/ requestLocation
    \/ \E lat \in 0..MaxGeoLat : positionCallback(lat)
    \/ errorCallback
    \/ \E city \in cityOptions : toggleCity(city)
    \/ unmount
    \/ reload

SpecGeo == GeoInit /\ [][GeoNext]_vars

-----------------------------------------------------------------------------
(* PhotoCarousel. MapView renders <PhotoCarousel photos={getLandmarkPhotos( *)
(* selected)} /> while a card is open: every render of MapView passes a new *)
(* array, so the [photos] effect runs again after each of them. The effect  *)
(* resets the state and starts checkPhotos, which awaits one Image after    *)
(* the other; nothing cancels a checkPhotos call started earlier.           *)

PhotoFilenames == <<"download", "images", "imagess">>
PhotoExtensions == <<"jpg", "png">>

\* `${basePath}/${filename}.${ext}`, the base path /photos/{city}/{name}
\* being given by the landmark's id
PhotoUrl(landmark, filename, ext) ==
    [landmark |-> landmark.id, filename |-> filename, ext |-> ext]

\* getLandmarkPhotos(landmark): filenames in the outer loop, extensions inside
getLandmarkPhotos(landmark) ==
    [n \in 1..(Len(PhotoFilenames) * Len(PhotoExtensions)) |->
        PhotoUrl(landmark,
                 PhotoFilenames[((n - 1) \div Len(PhotoExtensions)) + 1],
                 PhotoExtensions[((n - 1) % Len(PhotoExtensions)) + 1])]

\* what checkPhotos started now would end with: the candidates that load
RECURSIVE loadableOf(_)
loadableOf(candidates) ==
    IF candidates = <<>> THEN <<>>
    ELSE (IF Head(candidates) \in loadable THEN <<Head(candidates)>> ELSE <<>>)
            \o loadableOf(Tail(candidates))

PhotoFiles ==
    <<CityFile("Albany", <<RawA1, RawA2>>), CityFile("Troy", <<>>),
      CityFile("Schenectady", <<>>)>>

\* the files a landmark's photo folder may hold
PhotoFolders == {{}, {<<"download", "jpg">>}, {<<"download", "png">>, <<"imagess", "jpg">>}}

PhotoInit ==
    /\ LET m == Mounted(PhotoFiles, Null, TRUE, TRUE)
       IN  /\ cityFiles = m.cityFiles
           /\ landmarks = m.landmarks
           /\ filteredLandmarks = m.filteredLandmarks
           /\ savedLandmarks = m.savedLandmarks
           /\ savedLandmarkObjects = m.savedLandmarkObjects
           /\ storage = m.storage
           /\ storageOk = m.storageOk
           /\ geoSupported = m.geoSupported
           /\ crashed = m.crashed
           /\ \E folder \in [1..Len(m.landmarks) -> PhotoFolders] :
                 loadable = UNION {{PhotoUrl(m.landmarks[i], f[1], f[2]) : f \in folder[i]} :
                                      i \in 1..Len(m.landmarks)}
    /\ selected = Null
    /\ selectedCity = ""
    /\ selectedType = ""
    /\ selectedExperienceTags = <<>>
    /\ nearby = <<>>
    /\ userLocation = Null
    /\ geoError = ""
    /\ showLocationPrompt = TRUE
    /\ mounted = TRUE
    /\ photos = <<>>
    /\ currentIndex = 0
    /\ loadedPhotos = <<>>
    /\ loading = TRUE
    /\ probes = <<>>
    /\ watchId = Null
    /\ activeWatches = {}
    /\ nextWatch = 1
    /\ lastOp = NoOp
    /\ call = NoCall
    /\ result = NoResult

\* what a click on a landmark or a re-render of MapView leaves alone
mapVars == <<cityFiles, landmarks, storageOk, geoSupported, call, result, crashed,
             mounted, geoVars, savedVars, filterVars, filteredLandmarks, nearby>>

\* MapView renders with the card of lm open: setSelected(lm) of a marker or a
\* row, or any re-render while the card of lm is open. The carousel gets a
\* new photos array; its effect resets the state and calls checkPhotos.
showPhotos(lm) ==
    /\ rendered
    /\ Len(probes) < MaxProbes
    /\ selected' = Sel(lm)
    /\ photos' = getLandmarkPhotos(lm)
    /\ currentIndex' = 0
    /\ loadedPhotos' = <<>>
    /\ loading' = TRUE
    /\ probes' = Append(probes, [photos |-> photos', i |-> 1, validPhotos |-> <<>>])
    /\ lastOp' = Op("showPhotos", lm.id)
    /\ UNCHANGED <<mapVars, loadable>>

\* The Image awaited by the k-th checkPhotos call in flight loads (onload:
\* validPhotos.push) or fails (onerror); the call goes on with the next
\* candidate or, after the last one, sets loadedPhotos and loading.
imageSettles(k) ==
    /\ rendered
    /\ k \in 1..Len(probes)
    /\ LET probe == probes[k]
           photoUrl == probe.photos[probe.i]
           validPhotos == IF photoUrl \in loadable
                          THEN Append(probe.validPhotos, photoUrl)
                          ELSE probe.validPhotos
       IN  IF probe.i < Len(probe.photos)
           THEN /\ probes' = [probes EXCEPT ![k] =
                                 [probe EXCEPT !.i = probe.i + 1,
                                               !.validPhotos = validPhotos]]
                /\ UNCHANGED <<loadedPhotos, loading>>
           ELSE /\ probes' = [j \in 1..(Len(probes) - 1) |->
                                 IF j < k THEN probes[j] ELSE probes[j + 1]]
                /\ loadedPhotos' = validPhotos
                /\ loading' = FALSE
    /\ lastOp' = Op("imageSettles", <<k>>)
    /\ UNCHANGED <<mapVars, selected, photos, currentIndex, loadable>>

\* the navigation buttons, rendered when more than one photo is loaded
navigable == rendered /\ photos # <<>> /\ ~loading /\ Len(loadedPhotos) > 1

prevPhoto ==
    /\ navigable
    /\ currentIndex' = IF currentIndex = 0 THEN Len(loadedPhotos) - 1 ELSE currentIndex - 1
    /\ lastOp' = Op("prevPhoto", <<>>)
    /\ UNCHANGED <<mapVars, selected, photos, loadedPhotos, loading, probes, loadable>>

nextPhoto ==
    /\ navigable
    /\ currentIndex' = (currentIndex + 1) % Len(loadedPhotos)
    /\ lastOp' = Op("nextPhoto", <<>>)
    /\ UNCHANGED <<mapVars, selected, photos, loadedPhotos, loading, probes, loadable>>

\* The card is closed: the carousel is unmounted. The checkPhotos calls of
\* the unmounted carousel go on, but their state setters do nothing.
closePhotos ==
    /\ rendered
    /\ selected.t # "null"
    /\ selected' = Null
    /\ photos' = <<>>
    /\ currentIndex' = 0
    /\ loadedPhotos' = <<>>
    /\ loading' = TRUE
    /\ probes' = <<>>
    /\ lastOp' = Op("close", <<>>)
    /\ UNCHANGED <<mapVars, loadable>>

PhotoNext ==
    \/ \E lm \in Range(landmarks) : showPhotos(lm)
    \/ \E k \in 1..MaxProbes : imageSettles(k)
    \/ prevPhoto
    \/ nextPhoto
    \/ closePhotos

SpecPhoto == PhotoInit /\ [][PhotoNext]_vars

-----------------------------------------------------------------------------
(* Function-level specification: the filter engine's functions applied to   *)
(* arguments drawn from bounded sets. The component stays as mounted with   *)
(* no data; call holds the arguments and result the value returned.         *)

SeqsUpTo(S, n) == UNION {[1..k -> S] : k \in 0..n}

\* the i-th landmark of a list given by its latitudes
AtLat(i, lat) ==
    [id |-> <<"albany", "-", ToString(i)>>, city |-> "Albany", lat |-> lat, lng |-> 0,
     typetag |-> "", experiencetag |-> <<>>]

FnLats == 0..MaxLat \cup {NaN}

NearbyCalls ==
    {[fn |-> "computeNearby", list |-> [i \in DOMAIN lats |-> AtLat(i, lats[i])],
      loc |-> loc, radiusMiles |-> r, limit |-> n] :
        lats \in SeqsUpTo(FnLats, MaxNearbyLen),
        loc \in {Null} \cup {Loc(lat, 0) : lat \in 0..MaxLat},
        r \in 0..MaxRadius, n \in 0..MaxLimit}

FnTags == {"Free", "Outdoors"}

\* the selections toggleExperienceTag can build: no tag twice
FnSelections == {sel \in SeqsUpTo(FnTags, 2) : Cardinality(Range(sel)) = Len(sel)}

\* landmarks as the normalizer builds them; experiencetag may repeat a tag
FnLandmarks ==
    {[id |-> <<toLowerCase(c), "-", "1">>, city |-> c, lat |-> 0, lng |-> 0,
      typetag |-> ty, experiencetag |-> ex] :
        c \in {"Albany", "Troy"}, ty \in {"", "Park"},
        ex \in {<<>>, <<"Free">>, <<"Outdoors", "Free", "Outdoors">>}}

FilterCalls ==
    {[fn |-> "filterLandmarks", list |-> list, selectedCity |-> c, selectedType |-> ty,
      selectedExperienceTags |-> sel] :
        list \in SeqsUpTo(FnLandmarks, MaxFilterLen),
        c \in {"", "Albany", "Troy"}, ty \in {"", "Park"}, sel \in FnSelections}

MatchCalls ==
    {[fn |-> "matchesExperienceTags", landmark |-> l, selectedExperienceTags |-> sel] :
        l \in FnLandmarks, sel \in FnSelections}

\* raw records as a city file may hold them: typetag and type present, null,
\* empty or missing; experiencetag an array, a string, null, an object or missing
FnRawLandmarks ==
    {RawLandmark(id, typetag, type, experiencetag, 0) :
        id \in {"1", "2"},
        typetag \in {Undefined, Null, Str(""), Str("Park")},
        type \in {Undefined, Str("Historic")},
        experiencetag \in {Undefined, Null, Str("Free"), Obj, Arr(<<>>),
                           Arr(<<"Free", "Outdoors">>)}}

FnCities == {"Albany", "Troy", "Schenectady"}

NormalizeCalls ==
    {[fn |-> "normalizeCityFile", cityFile |-> CityFile(c, list)] :
        c \in FnCities, list \in SeqsUpTo(FnRawLandmarks, MaxRawLen)}

\* a raw record of which only the id matters
RawWithId(id) == RawLandmark(id, Str("Park"), Undefined, Arr(<<>>), 0)

\* three city files, as the landmarks memo merges them
MergeCalls ==
    {[fn |-> "mergeLandmarks",
      files |-> [k \in 1..3 |->
                    CityFile(cities[k],
                             [i \in DOMAIN ids[k] |-> RawWithId(ids[k][i])])]] :
        cities \in [1..3 -> FnCities],
        ids \in [1..3 -> SeqsUpTo({"1", "2"}, MaxMergeLen)]}

FnInit ==
    /\ LET m == Mounted(NoFiles, Null, TRUE, TRUE)
       IN  /\ cityFiles = m.cityFiles
           /\ landmarks = m.landmarks
           /\ filteredLandmarks = m.filteredLandmarks
           /\ savedLandmarks = m.savedLandmarks
           /\ savedLandmarkObjects = m.savedLandmarkObjects
           /\ storage = m.storage
           /\ storageOk = m.storageOk
           /\ geoSupported = m.geoSupported
           /\ crashed = m.crashed
    /\ selected = Null
    /\ selectedCity = ""
    /\ selectedType = ""
    /\ selectedExperienceTags = <<>>
    /\ nearby = <<>>
    /\ userLocation = Null
    /\ geoError = ""
    /\ showLocationPrompt = TRUE
    /\ mounted = TRUE
    /\ NoCarousel
    /\ watchId = Null
    /\ activeWatches = {}
    /\ nextWatch = 1
    /\ lastOp = NoOp
    /\ call \in NearbyCalls \cup FilterCalls \cup MatchCalls \cup NormalizeCalls
                 \cup MergeCalls
    /\ result = NoResult

appVars == <<cityFiles, landmarks, selected, selectedCity, selectedType,
             selectedExperienceTags, filteredLandmarks, nearby, savedLandmarks,
             savedLandmarkObjects, storage, storageOk, userLocation, geoError,
             showLocationPrompt, watchId, geoSupported, activeWatches, nextWatch,
             crashed, mounted, carouselVars, lastOp>>

Returned(value) == [done |-> TRUE, value |-> value]

callComputeNearby ==
    /\ call.fn = "computeNearby"
    /\ ~result.done
    /\ result' = Returned(computeNearby(call.list, call.loc, call.radiusMiles, call.limit))
    /\ UNCHANGED <<appVars, call>>

callFilterLandmarks ==
    /\ call.fn = "filterLandmarks"
    /\ ~result.done
    /\ result' = Returned(filterLandmarks(call.list, call.selectedCity, call.selectedType,
                                          call.selectedExperienceTags))
    /\ UNCHANGED <<appVars, call>>

callMatchesExperienceTags ==
    /\ call.fn = "matchesExperienceTags"
    /\ ~result.done
    /\ result' = Returned(matchesExperienceTags(call.landmark, call.selectedExperienceTags))
    /\ UNCHANGED <<appVars, call>>

callNormalizeCityFile ==
    /\ call.fn = "normalizeCityFile"
    /\ ~result.done
    /\ result' = Returned(normalizeCityFile(call.cityFile))
    /\ UNCHANGED <<appVars, call>>

callMergeLandmarks ==
    /\ call.fn = "mergeLandmarks"
    /\ ~result.done
    /\ result' = Returned(mergeLandmarks(call.files))
    /\ UNCHANGED <<appVars, call>>

FnNext ==
    \/ callComputeNearby
    \/ callFilterLandmarks
    \/ callMatchesExperienceTags
    \/ callNormalizeCityFile
    \/ callMergeLandmarks

SpecFn == FnInit /\ [][FnNext]_vars

-----------------------------------------------------------------------------
(* Claims *)

\* C1: in every reachable state a landmark is visible (in filteredLandmarks)
\* if and only if (selectedCity is empty or equals its city) and
\* (selectedType is empty or equals its typetag) and matchesExperienceTags
\* holds for the selected experience tags; nothing else is visible.
C1_VisibleIffPassesFilter ==
    /\ \A i \in 1..Len(landmarks) :
         LET l == landmarks[i]
         IN  (l \in Range(filteredLandmarks)) <=>
                /\ (selectedCity = "" \/ selectedCity = l.city)
                /\ (selectedType = "" \/ selectedType = l.typetag)
                /\ matchesExperienceTags(l, selectedExperienceTags)
    /\ Range(filteredLandmarks) \subseteq Range(landmarks)

\* C1 witness: city and experience filters are active, one landmark is shown
\* and others are hidden.
C1_Witness ==
    /\ selectedCity # ""
    /\ selectedExperienceTags # <<>>
    /\ Len(filteredLandmarks) = 1
    /\ Len(landmarks) = 3

\* C2: matchesExperienceTags returns true for the empty selection and
\* otherwise true exactly when every selected tag is among the landmark's
\* experience tags (AND, never OR).
C2_AllTagsPresent ==
    (call.fn = "matchesExperienceTags" /\ result.done) =>
        result.value =
            (\/ call.selectedExperienceTags = <<>>
             \/ \A tag \in Range(call.selectedExperienceTags) :
                    tag \in Range(call.landmark.experiencetag))

\* C2 witness: two tags selected, the landmark has one of them, the answer is no.
C2_Witness ==
    /\ call.fn = "matchesExperienceTags"
    /\ result.done
    /\ Len(call.selectedExperienceTags) = 2
    /\ call.landmark.experiencetag = <<"Free">>
    /\ result.value = FALSE

\* C3: computeNearby never returns a landmark whose distance exceeds
\* radiusMiles, never more than limit entries, and returns them in
\* non-decreasing distance order.
C3_NearbyWithinRadiusLimitSorted ==
    (call.fn = "computeNearby" /\ result.done) =>
        LET out == result.value
        IN  /\ Len(out) <= call.limit
            /\ \A j \in 1..Len(out) :
                 /\ out[j].distanceMi =
                        haversineMiles(call.loc.v.lat, call.loc.v.lng,
                                       out[j].lm.lat, out[j].lm.lng)
                 /\ out[j].distanceMi # NaN
                 /\ out[j].distanceMi <= call.radiusMiles
            /\ \A j \in 1..(Len(out) - 1) : out[j].distanceMi <= out[j + 1].distanceMi

\* C3 witness: a list given farthest-first with a landmark out of range
\* comes back as two entries at different distances.
C3_Witness ==
    /\ call.fn = "computeNearby"
    /\ result.done
    /\ Len(call.list) = 3
    /\ call.loc = Loc(0, 0)
    /\ call.list[1].lat = 3 /\ call.list[2].lat = 2 /\ call.list[3].lat = 1
    /\ call.radiusMiles = 2
    /\ Len(result.value) = 2
    /\ result.value[1].distanceMi < result.value[2].distanceMi

\* C4: a landmark at distance exactly radiusMiles is eligible, and the result
\* is the first limit entries of the distance-sorted eligible landmarks: it
\* has min(limit, number eligible) entries, all eligible, and no omitted
\* eligible landmark is strictly closer than a returned one.
C4_ClosestFirstInclusive ==
    (call.fn = "computeNearby" /\ result.done /\ call.loc # Null) =>
        LET out == result.value
            d(i) == haversineMiles(call.loc.v.lat, call.loc.v.lng,
                                   call.list[i].lat, call.list[i].lng)
            eligible == {i \in 1..Len(call.list) : d(i) # NaN /\ d(i) <= call.radiusMiles}
            returned == {out[j].lm.id : j \in 1..Len(out)}
        IN  /\ Len(out) = Min(call.limit, Cardinality(eligible))
            /\ returned \subseteq {call.list[i].id : i \in eligible}
            /\ Cardinality(returned) = Len(out)
            /\ \A i \in eligible :
                 call.list[i].id \notin returned =>
                    \A j \in 1..Len(out) : out[j].distanceMi <= d(i)

\* C4 witness: more landmarks in range than the limit, and one exactly at
\* the radius is returned.
C4_Witness ==
    /\ call.fn = "computeNearby"
    /\ result.done
    /\ call.loc = Loc(0, 0)
    /\ call.radiusMiles = 2
    /\ call.limit = 2
    /\ Len(call.list) = 3
    /\ call.list[1].lat = 2 /\ call.list[2].lat = 2 /\ call.list[3].lat = 0
    /\ Len(result.value) = 2
    /\ result.value[2].distanceMi = 2

\* C5: toggleSaved(x) adds x to the saved set if absent and removes it if
\* present, and a second toggleSaved(x) gives back the original set.
C5_ToggleSavedIsInvolution ==
    [][lastOp'.op = "toggleSaved" =>
          LET x == lastOp'.arg
              before == Range(savedLandmarks.v)
              after == Range(savedLandmarks'.v)
          IN  /\ ~crashed'
              /\ savedLandmarks.t = "array" /\ savedLandmarks'.t = "array"
              /\ x \in before => after = before \ {x}
              /\ x \notin before => after = before \cup {x}
              /\ Range(toggleSavedUpdater(savedLandmarks'.v, x)) = before]_vars

\* C5 witness: toggleSaved has just removed an id while another stays saved.
C5_Witness ==
    /\ lastOp.op = "toggleSaved"
    /\ lastOp.arg \notin Range(savedLandmarks.v)
    /\ savedLandmarks.v # <<>>

\* C6: the item stored under "savedLandmarks" is the JSON-encoded array of
\* the current saved ids, and a reload of the application restores exactly
\* the saved set held before it.
C6_StoredIsSavedArray ==
    /\ savedLandmarks.t = "array"
    /\ storage = Text(JSONstringify(savedLandmarks))
    /\ loadSavedLandmarks(storage, storageOk) = savedLandmarks

\* C7: whatever localStorage holds or does at load (absent, unreadable,
\* corrupt), the application does not crash, at load or later, and the
\* saved set is a set of ids.
C7_LoadFailsSoft ==
    /\ ~crashed
    /\ savedLandmarks.t = "array"

\* C8: selectedCity and selectedType each hold at most one value; toggleCity(c)
\* (toggleType(t)) replaces the current value by c when they differ and
\* clears it to "" when c is the active value.
C8_SingleSelectToggle ==
    [][/\ selectedCity' \in {""} \cup cityOptions'
       /\ selectedType' \in {""} \cup typeOptions'
       /\ lastOp'.op = "toggleCity" =>
            /\ selectedCity' = (IF selectedCity = lastOp'.arg THEN "" ELSE lastOp'.arg)
            /\ selectedType' = selectedType
       /\ lastOp'.op = "toggleType" =>
            /\ selectedType' = (IF selectedType = lastOp'.arg THEN "" ELSE lastOp'.arg)
            /\ selectedCity' = selectedCity]_vars

\* C8 witness: toggleType has just cleared the type while a city is selected.
C8_Witness ==
    /\ lastOp.op = "toggleType"
    /\ selectedType = ""
    /\ selectedCity = "Troy"

\* C9: the output of filterLandmarks is a subsequence of its input: input
\* landmarks only, each at most once per occurrence, in their original order.
C9_FilterIsSubsequence ==
    (call.fn = "filterLandmarks" /\ result.done) =>
        \E keep \in SUBSET (1..Len(call.list)) :
            /\ Len(result.value) = Cardinality(keep)
            /\ \A j \in 1..Len(result.value) :
                 \E i \in keep :
                    /\ Cardinality({k \in keep : k <= i}) = j
                    /\ result.value[j] = call.list[i]

\* C9 witness: with an experience tag selected, two different landmarks pass
\* and come back in the order given.
C9_Witness ==
    /\ call.fn = "filterLandmarks"
    /\ result.done
    /\ call.selectedExperienceTags # <<>>
    /\ Len(result.value) = 2
    /\ result.value[1] # result.value[2]
    /\ result.value = call.list

\* C10: adding a tag to the selection never lets a landmark pass that did not
\* pass before: toggleExperienceTag with a tag not yet selected can only
\* remove landmarks from the visible set.
C10_AddingTagOnlyRestricts ==
    [][(/\ lastOp'.op = "toggleExperienceTag"
        /\ ~includes(selectedExperienceTags, lastOp'.arg)) =>
          /\ Range(selectedExperienceTags') =
                Range(selectedExperienceTags) \cup {lastOp'.arg}
          /\ \A i \in 1..Len(landmarks) :
               ~matchesExperienceTags(landmarks[i], selectedExperienceTags) =>
                  ~matchesExperienceTags(landmarks[i], selectedExperienceTags')
          /\ Range(filteredLandmarks') \subseteq Range(filteredLandmarks)]_vars

\* C10 witness: a second tag has just been added and only one of three
\* landmarks is still visible.
C10_Witness ==
    /\ lastOp.op = "toggleExperienceTag"
    /\ Len(selectedExperienceTags) = 2
    /\ selectedExperienceTags[2] = lastOp.arg
    /\ Len(filteredLandmarks) = 1
    /\ Len(landmarks) = 3


\* C11: for every city file and raw record, normalizeCityFile yields the id
\* lowercase(city) + "-" + the raw id, and an experiencetag that is the raw
\* value when that is an array and the empty array otherwise (missing, null,
\* a string, an object); no error is raised.
C11_NormalizedIdAndTags ==
    (call.fn = "normalizeCityFile" /\ result.done) =>
        LET raw == call.cityFile.landmarks
            out == result.value
            lower == [Albany |-> "albany", Troy |-> "troy", Schenectady |-> "schenectady"]
        IN  /\ Len(out) = Len(raw)
            /\ \A i \in 1..Len(raw) :
                 /\ out[i].id = <<lower[call.cityFile.city], "-", raw[i].id>>
                 /\ out[i].experiencetag =
                        (IF raw[i].experiencetag.t = "array"
                         THEN raw[i].experiencetag.v ELSE <<>>)

\* C11 witness: a Troy record whose experiencetag is a string was normalized
\* to the id troy-2 with no experience tags.
C11_Witness ==
    /\ call.fn = "normalizeCityFile"
    /\ result.done
    /\ call.cityFile.city = "Troy"
    /\ Len(result.value) = 1
    /\ call.cityFile.landmarks[1].experiencetag = Str("Free")
    /\ call.cityFile.landmarks[1].id = "2"
    /\ result.value[1].experiencetag = <<>>

\* C12: the normalized typetag is raw.typetag when that is present (neither
\* missing nor null), else raw.type when that is present, else "".
C12_TypetagFirstDefinedWins ==
    (call.fn = "normalizeCityFile" /\ result.done) =>
        \A i \in 1..Len(result.value) :
            LET raw == call.cityFile.landmarks[i]
                present(x) == x # Undefined /\ x # Null
            IN  result.value[i].typetag =
                    (IF present(raw.typetag) THEN raw.typetag.v[1]
                     ELSE IF present(raw.type) THEN raw.type.v[1]
                     ELSE "")

\* C12 witness: both fields are present and typetag, the empty string, won.
C12_Witness ==
    /\ call.fn = "normalizeCityFile"
    /\ result.done
    /\ Len(result.value) = 1
    /\ call.cityFile.landmarks[1].typetag = Str("")
    /\ call.cityFile.landmarks[1].type = Str("Historic")
    /\ result.value[1].typetag = ""


C14_NoLocationNoNearby ==
    userLocation = Null => nearby = <<>>

\* C14 witness: with no user location the nearby memo was recomputed for a
\* new filter selection that shows landmarks.
C14_Witness ==
    /\ userLocation = Null
    /\ lastOp.op = "toggleCity"
    /\ selectedCity = "Albany"
    /\ Len(filteredLandmarks) = 2
    /\ nearby = <<>>

\* C19: right after toggleCity, toggleType or clearAllFilters no landmark is
\* selected; right after toggleExperienceTag the selection is kept if and
\* only if it matches city, type and the updated tags, and is cleared
\* otherwise; so after each of the four the selected landmark is none or one
\* that passes the new filter selection.
C19_SelectionAfterFilterChange ==
    [][LET passesNew(l) ==
               /\ (selectedCity' = "" \/ selectedCity' = l.city)
               /\ (selectedType' = "" \/ selectedType' = l.typetag)
               /\ \A tag \in Range(selectedExperienceTags') :
                      tag \in Range(l.experiencetag)
       IN  /\ lastOp'.op \in {"toggleCity", "toggleType", "clearAllFilters"} =>
                  selected' = Null
           /\ lastOp'.op = "toggleExperienceTag" =>
                  /\ selected' \in {selected, Null}
                  /\ (selected' # Null) <=> (selected # Null /\ passesNew(selected.v))
    ]_vars

\* C19 witness: a tag was toggled on while a card was open and the card
\* stayed, its landmark having the tag.
C19_Witness ==
    /\ lastOp.op = "toggleExperienceTag"
    /\ selectedExperienceTags # <<>>
    /\ selected # Null
    /\ Len(filteredLandmarks) < Len(landmarks)

\* C20: in every reachable state every landmark of the nearby list passes
\* the current filter selection (nearby is computed from filteredLandmarks).
C20_NearbyPassesFilter ==
    \A i \in 1..Len(nearby) :
        LET l == nearby[i].lm
        IN  /\ l \in Range(filteredLandmarks)
            /\ (selectedCity = "" \/ selectedCity = l.city)
            /\ (selectedType = "" \/ selectedType = l.typetag)
            /\ \A tag \in Range(selectedExperienceTags) : tag \in Range(l.experiencetag)

\* C20 witness: with the user location unchanged, a type filter left one of
\* the two landmarks within the radius in the nearby list.
C20_Witness ==
    /\ lastOp.op = "toggleType"
    /\ selectedType # ""
    /\ userLocation # Null
    /\ Len(nearby) = 1
    /\ Cardinality({i \in 1..Len(landmarks) :
                       withinRadius([lm |-> landmarks[i],
                                     distanceMi |-> haversineMiles(userLocation.v.lat,
                                                       userLocation.v.lng,
                                                       landmarks[i].lat, landmarks[i].lng)],
                                    NEARBY_RADIUS_MI)}) = 2


\* C15: whenever startLocationTracking finds geolocation unsupported, or the
\* watch's error callback fires, an error message is set and the element
\* that renders geoError is on screen.
C15_GeoErrorDisplayed ==
    (\/ lastOp.op = "positionError"
     \/ (lastOp.op = "startLocationTracking" /\ ~geoSupported)) =>
        /\ geoError # ""
        /\ mounted /\ ~crashed
        /\ showLocationPrompt
        /\ userLocation = Null

\* C16: a position callback sets userLocation to the position delivered, an
\* error callback and every other handler but a page reload leave it
\* unchanged, and after every step the nearby list is the one computed from
\* the current userLocation and the filtered landmarks.
C16_MostRecentPositionWins ==
    [][/\ lastOp'.op = "position" => userLocation' = Loc(lastOp'.arg[1], 0)
       /\ lastOp'.op \notin {"position", "reload"} => userLocation' = userLocation
       /\ nearby' = computeNearby(filteredLandmarks', userLocation',
                                  NEARBY_RADIUS_MI, NEARBY_LIMIT)
    ]_vars

\* C16 witness: after an error callback the watch delivered the position one
\* mile north, from where all three landmarks are within the radius.
C16_Witness ==
    /\ lastOp = Op("position", <<1>>)
    /\ userLocation = Loc(1, 0)
    /\ geoError = GeoFailed
    /\ Len(nearby) = 3

\* C17: at most one geolocation watch is active at any time, an active watch
\* is the one whose handle the mounted component holds in watchId, and after
\* the unmount no watch is active.
C17_AtMostOneWatch ==
    /\ Cardinality(activeWatches) <= 1
    /\ \A w \in activeWatches : mounted /\ watchId = [t |-> "number", v |-> <<w>>]
    /\ ~mounted => activeWatches = {}

\* C17 witness: tracking was started twice, the second handle was the active
\* one, and the component has been unmounted.
C17_Witness ==
    /\ lastOp.op = "unmount"
    /\ nextWatch = 3
    /\ watchId = [t |-> "number", v |-> <<2>>]
    /\ activeWatches = {}


\* C18: once no checkPhotos call is in flight, the carousel of the open card
\* is not loading and its loaded photos are exactly the loadable candidates
\* of the selected landmark, in candidate order: the result of an earlier
\* call never replaces that of a later one.
C18_NoStaleOverwrite ==
    (selected # Null /\ probes = <<>>) =>
        /\ ~loading
        /\ loadedPhotos = loadableOf(getLandmarkPhotos(selected.v))

====
